---- MODULE Spec2Model ----
(***************************************************************************)
(* Model of src/src/flag/mod.rs: the option registry (Flag), the shared    *)
(* value cells (Rc<RefCell<String>>), the consumption Reader and the       *)
(* parse loop over the process arguments, followed by the read macros.     *)
(***************************************************************************)
EXTENDS Integers, Sequences, FiniteSets, TLC

(* ---------------------------------------------------------------- bounds *)

\* Longest argument list env::args() yields.
MaxArgs == 4
\* Longest argument list after which the caller's reads are followed.
MaxReadArgs == 2
\* Longest default sequence handed to a vector registration.
MaxDefault == 2

(* ---------------------------------------------------------------- inputs *)

\* Keys the caller registers options under.
Keys == {"-a", "-b"}
\* Argument tokens that are never registered as keys.
Words == {"x", "8080"}
\* Sentinels the caller may pass to set_help.
HelpTokens == {"-a"}
\* Every token the argument list may hold.
Tokens == Keys \cup Words \cup {"--help"} \cup HelpTokens

\* Defaults of the registrations (the ones of flag_test).
StringDefault == "localhost"
U32Default == 80
VecDefaultPool == <<"a", "b", "c", "libmath", "../third">>
VecDefaults == {SubSeq(VecDefaultPool, 1, n) : n \in 0..MaxDefault}
Desc == "desc"
\* The caller's variables that receive the Values of its registration calls.
HandleVars == <<"first", "second">>
\* The numeric types the caller reads a scalar as (read_i32!, read_u32!).
NumTypes == {"i32", "u32"}

(* ------------------------------------------------------------ conversions *)

\* u32::to_string on the registered numeric default.
U32ToString(n) == IF n = 80 THEN "80" ELSE "8080"

\* A conversion that yields 0 for a string that is no number.
ParseNum_lenient(s, typ) ==
    IF s = "80" THEN <<80>>
    ELSE IF s = "8080" THEN <<8080>>
    ELSE <<0>>

\* str::parse::<u32/i32> over the strings a cell can hold: <<n>> for Ok(n),
\* <<>> for Err.
ParseNum(s, typ) ==
    IF s = "80" THEN <<80>>
    ELSE IF s = "8080" THEN <<8080>>
    ELSE <<>>

(* ------------------------------------------------------------------ state *)

VARIABLES
    pc,           \* "setup", "parse", "done" (parse returned) or "exit"
    help,         \* Flag.help
    keys,         \* Flag.keys: key -> Item
    cells,        \* every RcValue allocated so far: cell id -> string
    handles,      \* the Values returned by the registration calls, in call order
    args,         \* the arguments the parse loop has taken from env::args()
    reader,       \* Option<Reader>: <<>> is None, <<r>> is Some(r)
    read_status,  \* the loop's read_status
    out,          \* what has been printed
    exit_code,    \* <<>> while the process runs, <<c>> after exit(c)
    got           \* results of the read macros after parse

vars == <<pc, help, keys, cells, handles, args, reader, read_status, out,
          exit_code, got>>

(* ------------------------------------------------------------- ItemValue *)

Single(c) == [tag |-> "Single", cells |-> <<c>>]
Multi(cs) == [tag |-> "Multi", cells |-> cs]

\* ToItem::to_item: one fresh cell per default string, appended to the heap.
to_item_cells(heap, strs) == heap \o strs
to_item(heap, tag, strs) ==
    [tag |-> tag, cells |-> [i \in 1..Len(strs) |-> Len(heap) + i]]

\* The strings a value currently reads through its cells.
Strings(v) == [i \in 1..Len(v.cells) |-> cells[v.cells[i]]]

(* ---------------------------------------------------------------- Reader *)

\* A reader that resumes at the index of the reader it supersedes.
Reader_new_resume(value, value_len) ==
    [value |-> value, value_len |-> value_len,
     index |-> IF reader # << >> THEN reader[1].index ELSE 0]

Reader_new(value, value_len) ==
    [value |-> value, value_len |-> value_len, index |-> 0]

\* Reader::process writing every value of a sequence at position 0.
process_cells_first(r, arg, heap) ==
    IF r.value.tag = "Single"
    THEN [heap EXCEPT ![r.value.cells[1]] = arg]
    ELSE IF r.index < Len(r.value.cells)
         THEN [heap EXCEPT ![r.value.cells[1]] = arg]
         ELSE Append(heap, arg)

\* Reader::process putting a scalar in a new cell instead of writing through
\* the shared one.
process_cells_rebind(r, arg, heap) ==
    IF r.value.tag = "Single"
    THEN Append(heap, arg)
    ELSE IF r.index < Len(r.value.cells)
         THEN [heap EXCEPT ![r.value.cells[r.index + 1]] = arg]
         ELSE Append(heap, arg)

\* Reader::process putting an element in a new cell instead of writing
\* through the shared one.
process_cells_replace(r, arg, heap) ==
    IF r.value.tag = "Single"
    THEN [heap EXCEPT ![r.value.cells[1]] = arg]
    ELSE Append(heap, arg)

\* Reader::process writing at its index into one container common to all
\* options instead of its own.
process_cells_global(r, arg, heap) ==
    IF r.index < Len(heap)
    THEN [heap EXCEPT ![r.index + 1] = arg]
    ELSE Append(heap, arg)

\* Reader::process: the heap after the write.
process_cells(r, arg, heap) ==
    IF r.value.tag = "Single"
    THEN [heap EXCEPT ![r.value.cells[1]] = arg]
    ELSE IF r.index < Len(r.value.cells)
         THEN [heap EXCEPT ![r.value.cells[r.index + 1]] = arg]
         ELSE Append(heap, arg)

\* Reader::process: the reader after the write (push_back grows its own
\* container only) and the increment of index.
process_reader(r, heap) ==
    [r EXCEPT
        !.value = IF r.value.tag = "Multi" /\ ~(r.index < Len(r.value.cells))
                  THEN Multi(Append(r.value.cells, Len(heap) + 1))
                  ELSE r.value,
        !.index = r.index + 1]

\* Reader::process finishing as soon as index has reached value_len.
process_status_ge(r) ==
    IF r.value_len < 0 THEN "Processing"
    ELSE IF r.index >= r.value_len THEN "Finish"
    ELSE "Processing"

\* Reader::process: the returned status, from the incremented index.
process_status(r) ==
    IF r.value_len < 0 THEN "Processing"
    ELSE IF r.index = r.value_len THEN "Finish"
    ELSE "Processing"

\* Reader::next_key testing index < value_len.
next_key_lt(r) ==
    IF r.value_len < 0 THEN "Finish"
    ELSE IF r.index < r.value_len THEN "Processing"
    ELSE "Finish"

next_key(r) ==
    IF r.value_len < 0 THEN "Finish"
    ELSE IF r.index # r.value_len THEN "Processing"
    ELSE "Finish"

(* ------------------------------------------------------------------ Flag *)

Init ==
    /\ pc = "setup"
    /\ help = "--help"
    /\ keys = << >>
    /\ cells = << >>
    /\ handles = << >>
    /\ args = << >>
    /\ reader = << >>
    /\ read_status = "Finish"
    /\ out = << >>
    /\ exit_code = << >>
    /\ got = << >>

Item(value, desc, value_len) ==
    [value |-> value, desc |-> desc, is |-> FALSE, value_len |-> value_len]

\* An insert that keeps the entry of a present key.
Insert_keep(map, key, item) == map @@ (key :> item)

\* HashMap::insert: a present key is replaced.
Insert(map, key, item) == (key :> item) @@ map

register_with_desc(key, tag, strs, desc, value_len) ==
    /\ pc = "setup"
    /\ Len(handles) < Len(HandleVars)
    /\ LET r == to_item(cells, tag, strs) IN
        /\ cells' = to_item_cells(cells, strs)
        /\ keys' = Insert(keys, key, Item(r, desc, value_len))
        /\ handles' = Append(handles,
               [key |-> key, default |-> strs, value_len |-> value_len, v |-> r])
    /\ UNCHANGED <<pc, help, args, reader, read_status, out, exit_code, got>>

reg_string(key, default, desc) ==
    register_with_desc(key, "Single", <<default>>, desc, 1)

reg_u32(key, default, desc) ==
    register_with_desc(key, "Single", <<U32ToString(default)>>, desc, 1)

reg_fixed_str_vec(key, default, desc) ==
    register_with_desc(key, "Multi", default, desc, Len(default))

reg_lengthen_str_vec(key, default, desc) ==
    register_with_desc(key, "Multi", default, desc, -1)

has(key) == IF key \in DOMAIN keys THEN keys[key].is ELSE FALSE

set_help(t) ==
    /\ pc = "setup"
    /\ help # t
    /\ help' = t
    /\ UNCHANGED <<pc, keys, cells, handles, args, reader, read_status, out,
                   exit_code, got>>

\* Display for ItemValue, as the strings it writes in order.
Display(v) == Strings(v)

\* print_help: the header, then one entry per key in the map's own order.
print_help ==
    [kind |-> "help",
     text |-> {<<k, Display(keys[k].value), keys[k].desc>> : k \in DOMAIN keys}]

\* The message of the ordering error.
NotMatched(arg) == [kind |-> "not matched", text |-> {<<arg, << >>, "">>}]

\* fn panic exiting with a failure status.
panic_failure(msg) ==
    /\ out' = Append(out, msg)
    /\ exit_code' = <<1>>
    /\ pc' = "exit"

\* fn panic printing the message and returning to the loop.
panic_return(msg) ==
    /\ out' = Append(out, msg)
    /\ UNCHANGED <<pc, exit_code>>

\* fn panic: println!, then std::process::exit(0)
panic(msg) ==
    /\ out' = Append(out, msg)
    /\ exit_code' = <<0>>
    /\ pc' = "exit"

\* Flag::exit
Flag_exit ==
    /\ exit_code' = <<0>>
    /\ pc' = "exit"

\* let args = env::args(); let mut reader = None; let mut read_status = Finish
\* parse starting with read_status = ReadStatus::Processing.
parse_start_processing ==
    /\ pc = "setup"
    /\ pc' = "parse"
    /\ reader' = << >>
    /\ read_status' = "Processing"
    /\ UNCHANGED <<help, keys, cells, handles, args, out, exit_code, got>>

parse_start ==
    /\ pc = "setup"
    /\ pc' = "parse"
    /\ reader' = << >>
    /\ read_status' = "Finish"
    /\ UNCHANGED <<help, keys, cells, handles, args, out, exit_code, got>>

\* if arg == self.help { self.print_help(); self.exit(); }
on_help ==
    /\ out' = Append(out, print_help)
    /\ Flag_exit
    /\ UNCHANGED <<help, keys, cells, handles, reader, read_status, got>>

\* The status the key branch tests: next_key of the active reader, else the
\* remembered one.
key_status == IF reader # << >> THEN next_key(reader[1]) ELSE read_status

\* Some(item) of self.keys.get(&arg)
on_key(arg) ==
    /\ read_status' = key_status
    /\ IF key_status = "Processing"
       THEN /\ panic(NotMatched(arg))
            /\ UNCHANGED <<help, keys, cells, handles, reader, got>>
       ELSE /\ reader' = <<Reader_new(keys[arg].value, keys[arg].value_len)>>
            /\ UNCHANGED <<pc, help, keys, cells, handles, out, exit_code, got>>

\* The value branch with the reader's container written back to the
\* registry, as if the reader borrowed item.value instead of cloning it.
on_value_writeback(arg) ==
    IF reader # << >>
    THEN /\ cells' = process_cells(reader[1], arg, cells)
         /\ LET r == process_reader(reader[1], cells) IN
             /\ read_status' = process_status(r)
             /\ reader' = IF process_status(r) = "Finish" THEN << >> ELSE <<r>>
             /\ keys' = [k \in DOMAIN keys |->
                            IF keys[k].value = reader[1].value
                            THEN [keys[k] EXCEPT !.value = r.value]
                            ELSE keys[k]]
         /\ UNCHANGED <<pc, help, handles, out, exit_code, got>>
    ELSE UNCHANGED <<pc, help, keys, cells, handles, reader, read_status,
                     out, exit_code, got>>

\* match &mut reader, for an argument that is no key
on_value(arg) ==
    IF reader # << >>
    THEN /\ cells' = process_cells(reader[1], arg, cells)
         /\ LET r == process_reader(reader[1], cells) IN
             /\ read_status' = process_status(r)
             /\ reader' = IF process_status(r) = "Finish" THEN << >> ELSE <<r>>
         /\ UNCHANGED <<pc, help, keys, handles, out, exit_code, got>>
    ELSE UNCHANGED <<pc, help, keys, cells, handles, reader, read_status,
                     out, exit_code, got>>

\* The loop body looking the argument up as a key before comparing it with
\* the help sentinel.
parse_arg_keyfirst(arg) ==
    /\ pc = "parse"
    /\ Len(args) < MaxArgs
    /\ args' = Append(args, arg)
    /\ IF arg \in DOMAIN keys THEN on_key(arg)
       ELSE IF arg = help THEN on_help
       ELSE on_value(arg)

\* The loop body comparing the argument with the sentinel of Flag::new
\* instead of self.help.
parse_arg_defaulthelp(arg) ==
    /\ pc = "parse"
    /\ Len(args) < MaxArgs
    /\ args' = Append(args, arg)
    /\ IF arg = "--help" THEN on_help
       ELSE IF arg \in DOMAIN keys THEN on_key(arg)
       ELSE on_value(arg)

\* One iteration of the loop of parse, on the next argument.
parse_arg(arg) ==
    /\ pc = "parse"
    /\ Len(args) < MaxArgs
    /\ args' = Append(args, arg)
    /\ IF arg = help THEN on_help
       ELSE IF arg \in DOMAIN keys THEN on_key(arg)
       ELSE on_value(arg)

\* env::args() is exhausted: parse returns.
\* The end of the argument list treated like a key: an ordering error when
\* the active reader has not consumed its arity.
parse_end_strict ==
    /\ pc = "parse"
    /\ IF key_status = "Processing"
       THEN panic(NotMatched(""))
       ELSE pc' = "done" /\ UNCHANGED <<out, exit_code>>
    /\ UNCHANGED <<help, keys, cells, handles, args, reader, read_status, got>>

parse_end ==
    /\ pc = "parse"
    /\ pc' = "done"
    /\ UNCHANGED <<help, keys, cells, handles, args, reader, read_status, out,
                   exit_code, got>>

(* ----------------------------------------------------------- read macros *)

ToError(typ) == [kind |-> "to error", text |-> {<<typ, << >>, "">>}]
ValueIsSingle == [kind |-> "value is single", text |-> {}]

\* What a read macro evaluates to: a number, a string or the strings of a
\* sequence.
NumResult(n) == [kind |-> "num", num |-> n, strs |-> << >>]
StrResult(str) == [kind |-> "str", num |-> 0, strs |-> <<str>>]
VecResult(strs) == [kind |-> "vec", num |-> 0, strs |-> strs]

\* println!("[ERROR] ..."); std::process::exit(0); of the read macros
macro_exit(msg) ==
    /\ out' = Append(out, msg)
    /\ exit_code' = <<0>>
    /\ pc' = "exit"

\* read!($v, $typ), behind read_i32! and read_u32!
read(h, typ) ==
    /\ pc = "done"
    /\ Len(args) <= MaxReadArgs
    /\ LET v == handles[h].v IN
        IF v.tag = "Single"
        THEN IF ParseNum(cells[v.cells[1]], typ) # << >>
             THEN /\ got' = <<NumResult(ParseNum(cells[v.cells[1]], typ)[1])>>
                  /\ UNCHANGED <<pc, out, exit_code>>
             ELSE /\ macro_exit(ToError(typ))
                  /\ UNCHANGED got
        ELSE /\ macro_exit(ValueIsSingle)
             /\ UNCHANGED got
    /\ UNCHANGED <<help, keys, cells, handles, args, reader, read_status>>

read_string(h) ==
    /\ pc = "done"
    /\ Len(args) <= MaxReadArgs
    /\ LET v == handles[h].v IN
        IF v.tag = "Single"
        THEN /\ got' = <<StrResult(cells[v.cells[1]])>>
             /\ UNCHANGED <<pc, out, exit_code>>
        ELSE /\ macro_exit(ValueIsSingle)
             /\ UNCHANGED got
    /\ UNCHANGED <<help, keys, cells, handles, args, reader, read_status>>

\* read_vector!($v), each item then read with read_string_item!
read_vector(h) ==
    /\ pc = "done"
    /\ Len(args) <= MaxReadArgs
    /\ LET v == handles[h].v IN
        IF v.tag = "Multi"
        THEN /\ got' = <<VecResult(Strings(v))>>
             /\ UNCHANGED <<pc, out, exit_code>>
        ELSE /\ macro_exit(ValueIsSingle)
             /\ UNCHANGED got
    /\ UNCHANGED <<help, keys, cells, handles, args, reader, read_status>>

Next ==
    \/ \E k \in Keys : reg_string(k, StringDefault, Desc)
    \/ \E k \in Keys : reg_u32(k, U32Default, Desc)
    \/ \E k \in Keys, d \in VecDefaults : reg_fixed_str_vec(k, d, Desc)
    \/ \E k \in Keys, d \in VecDefaults : reg_lengthen_str_vec(k, d, Desc)
    \/ \E t \in HelpTokens : set_help(t)
    \/ parse_start
    \/ \E a \in Tokens : parse_arg(a)
    \/ parse_end
    \/ \E h \in DOMAIN handles, typ \in NumTypes : read(h, typ)
    \/ \E h \in DOMAIN handles : read_string(h)
    \/ \E h \in DOMAIN handles : read_vector(h)

Spec == Init /\ [][Next]_vars

\* The for loop of parse runs on without waiting: it takes the next argument
\* or, when env::args() is exhausted, returns.
ParseLoop == parse_end \/ \E a \in Tokens : parse_arg(a)
FairSpec == Spec /\ WF_vars(ParseLoop)

(* ------------------------------------------------- vocabulary of claims *)

Last(s) == s[Len(s)]
Max(S) == CHOOSE m \in S : \A n \in S : n <= m

\* An argument parse treats as a value: neither the help sentinel nor a key.
IsWord(t) == t # help /\ t \notin DOMAIN keys

\* The n arguments after position p exist and are all values.
FollowedByWords(p, n) ==
    /\ p + n <= Len(args)
    /\ \A j \in 1..n : IsWord(args[p + j])

\* Registration i is the one the registry holds for its key.
Current(i) ==
    \A j \in DOMAIN handles : j > i => handles[j].key # handles[i].key

\* Positions of the arguments equal to key k.
Occurrences(k) == {p \in DOMAIN args : args[p] = k}

\* The active reader has a fixed arity it has not consumed exactly.
Unsatisfied ==
    /\ reader # << >>
    /\ reader[1].value_len >= 0
    /\ reader[1].index # reader[1].value_len

\* The process has stopped on the ordering error.
OrderingError ==
    /\ pc = "exit"
    /\ out # << >>
    /\ Last(out).kind = "not matched"

\* The process has stopped on the help display.
HelpExit ==
    /\ pc = "exit"
    /\ out # << >>
    /\ Last(out).kind = "help"

\* Once the process has exited nothing moves.
ExitIsFinal == pc = "exit" => UNCHANGED vars

(* ------------------------------------------------------------------- C1 *)

\* C1: has(key) is false for every key before parse; after parse completes
\* has(key) is true exactly for the registered keys matched by at least one
\* argument.
C1_HasIffMatched ==
    /\ pc = "setup" => \A k \in Tokens : ~has(k)
    /\ pc = "done" =>
         \A k \in Tokens :
            has(k) <=> (k \in DOMAIN keys /\ Occurrences(k) # {})

(* ------------------------------------------------------------------- C2 *)

\* What C2 says of a step that takes the key a from the arguments: the
\* ordering error happens exactly when the active reader is unsatisfied, and
\* then no reader is started and no cell is written.
C2_KeyStep(a) ==
    /\ (OrderingError' /\ Last(out').text = {<<a, << >>, "">>}) <=> Unsatisfied
    /\ Unsatisfied => (pc' = "exit" /\ reader' = reader /\ cells' = cells)

\* C2 as stated: every argument that matches a registered key raises the
\* ordering error exactly when a reader is active with a fixed arity its
\* index differs from, and parse stops there.
C2_AnyKeyToken ==
    [][ /\ \A a \in Tokens :
            (pc = "parse" /\ args' = Append(args, a) /\ a \in DOMAIN keys)
                => C2_KeyStep(a)
        /\ ExitIsFinal ]_vars

\* C2 amended: the same, for every argument that matches a registered key
\* and is not the help sentinel.
C2_KeyTokenNotHelp ==
    [][ /\ \A a \in Tokens :
            (pc = "parse" /\ args' = Append(args, a) /\ a \in DOMAIN keys
                /\ a # help)
                => C2_KeyStep(a)
        /\ ExitIsFinal ]_vars

\* The ordering error has happened on a key that is not the help sentinel.
C2_Witness == OrderingError /\ Last(args) \in DOMAIN keys /\ Last(args) # help

(* ------------------------------------------------------------------- C3 *)

\* What C3 says of the occurrence p of the key of the fixed-arity sequence
\* option i: the handle reads the A arguments after p.
C3_Reads(i, p) ==
    Strings(handles[i].v) = SubSeq(args, p + 1, p + handles[i].value_len)

FixedVec(i) ==
    /\ Current(i)
    /\ handles[i].v.tag = "Multi"
    /\ handles[i].value_len >= 0

\* C3 as stated: after parse, the handle of a fixed-arity sequence option
\* reads the A values that follow its key, for any occurrence of the key.
C3_AnyOccurrence ==
    pc = "done" =>
        \A i \in DOMAIN handles : FixedVec(i) =>
            \A p \in Occurrences(handles[i].key) :
                FollowedByWords(p, handles[i].value_len) => C3_Reads(i, p)

\* C3 amended: after parse, the handle reads the A values that follow the
\* last occurrence of its key.
C3_LastOccurrence ==
    pc = "done" =>
        \A i \in DOMAIN handles : FixedVec(i) =>
            \A p \in Occurrences(handles[i].key) :
                (p = Max(Occurrences(handles[i].key))
                    /\ FollowedByWords(p, handles[i].value_len))
                => C3_Reads(i, p)

\* Parse has completed with two different values after the key of a
\* sequence option of arity 2, which the handle reads in their order.
C3_Witness ==
    /\ pc = "done"
    /\ \E i \in DOMAIN handles :
        /\ FixedVec(i)
        /\ handles[i].value_len = 2
        /\ \E p \in Occurrences(handles[i].key) :
            /\ FollowedByWords(p, 2)
            /\ args[p + 1] # args[p + 2]
            /\ Strings(handles[i].v) = <<args[p + 1], args[p + 2]>>

(* ------------------------------------------------------------------- C4 *)

Scalar(i) ==
    /\ Current(i)
    /\ handles[i].v.tag = "Single"

\* Occurrences of k that have a following argument.
FollowedOccurrences(k) == {p \in Occurrences(k) : p < Len(args)}

\* C4: when parse completes, the handle of a scalar option reads the
\* argument after the last occurrence of its key that has a following
\* argument, and its default when there is no such occurrence.
C4_ScalarReadsLast ==
    pc = "done" =>
        \A i \in DOMAIN handles : Scalar(i) =>
            cells[handles[i].v.cells[1]] =
                IF FollowedOccurrences(handles[i].key) = {}
                THEN handles[i].default[1]
                ELSE args[Max(FollowedOccurrences(handles[i].key)) + 1]

\* Parse has completed with the key of a scalar option given twice, with
\* different values, and the handle reads the second.
C4_Witness ==
    /\ pc = "done"
    /\ \E i \in DOMAIN handles :
        /\ Scalar(i)
        /\ \E p, q \in FollowedOccurrences(handles[i].key) :
            /\ p < q
            /\ args[p + 1] # args[q + 1]
            /\ cells[handles[i].v.cells[1]] = args[q + 1]

(* ------------------------------------------------------------------- C5 *)

OpenVec(i) ==
    /\ Current(i)
    /\ handles[i].v.tag = "Multi"
    /\ handles[i].value_len < 0

\* Occurrences of k followed by at least n values: the ones whose reader
\* wrote position n - 1.
Writers(k, n) == {p \in Occurrences(k) : k # help /\ FollowedByWords(p, n)}

\* The last value parse wrote at position j (from 1) for key k, else d.
LastWritten(k, j, d) ==
    IF Writers(k, j) = {} THEN d ELSE args[Max(Writers(k, j)) + j]

\* The key whose reader is the active one: the last key among the arguments.
KeyPositions == {p \in DOMAIN args : args[p] \in DOMAIN keys /\ args[p] # help}
ActiveKey == args[Max(KeyPositions)]

\* C5: for an open-ended sequence option with D defaults, the registry, the
\* handle and the active reader hold the same cells at the positions below
\* D, and the handle reads at each of them the last value written there, or
\* the default.
C5_OverwritesShared ==
    \A i \in DOMAIN handles : OpenVec(i) =>
        /\ keys[handles[i].key].value.cells = handles[i].v.cells
        /\ (pc = "parse" /\ reader # << >> /\ ActiveKey = handles[i].key) =>
              SubSeq(reader[1].value.cells, 1, Len(handles[i].default))
                  = handles[i].v.cells
        /\ \A j \in 1..Len(handles[i].default) :
              cells[handles[i].v.cells[j]] =
                  LastWritten(handles[i].key, j, handles[i].default[j])

\* An open-ended option with 2 defaults has had both overwritten, with
\* different values, and one more value appended by its reader.
C5_Witness ==
    \E i \in DOMAIN handles :
        /\ OpenVec(i)
        /\ Len(handles[i].default) = 2
        /\ reader # << >>
        /\ pc = "parse"
        /\ ActiveKey = handles[i].key
        /\ Len(reader[1].value.cells) > 2
        /\ Strings(handles[i].v) # handles[i].default
        /\ cells[handles[i].v.cells[1]] # cells[handles[i].v.cells[2]]
        /\ cells[handles[i].v.cells[1]] \in Words
        /\ cells[handles[i].v.cells[2]] \in Words

(* ------------------------------------------------------------------- C6 *)

\* C6: in every state the sequence of the registry and the sequence of the
\* handle of a sequence option have the length of the registered default.
C6_LengthsKept ==
    \A i \in DOMAIN handles : handles[i].v.tag = "Multi" =>
        /\ Len(handles[i].v.cells) = Len(handles[i].default)
        /\ Current(i) =>
              Len(keys[handles[i].key].value.cells) = Len(handles[i].default)

\* A reader has appended beyond the default of its sequence option.
C6_Witness ==
    /\ reader # << >>
    /\ pc = "parse"
    /\ \E i \in DOMAIN handles :
        /\ Current(i)
        /\ handles[i].v.tag = "Multi"
        /\ ActiveKey = handles[i].key
        /\ Len(reader[1].value.cells) > Len(handles[i].default)

(* ------------------------------------------------------------------- C7 *)

\* C7: a step of parse that takes the help sentinel prints the help and
\* exits, whatever the reader and the registry hold; it writes no cell and
\* nothing follows it.
C7_HelpWins ==
    [][ /\ (pc = "parse" /\ args' = Append(args, help)) =>
            /\ HelpExit'
            /\ out' = Append(out, print_help)
            /\ cells' = cells
            /\ reader' = reader
        /\ ExitIsFinal ]_vars

\* Help was displayed on a sentinel that is a registered key, while a reader
\* of fixed arity was unsatisfied.
C7_Witness ==
    /\ HelpExit
    /\ Last(args) = help
    /\ help \in DOMAIN keys
    /\ Unsatisfied

(* ------------------------------------------------------------------- C8 *)

\* C8: whatever argument 0 is, taking it starts no reader, raises no error
\* and changes no cell.
C8_Token0Skipped ==
    Len(args) = 1 =>
        /\ reader = << >>
        /\ ~OrderingError
        /\ \A i \in DOMAIN handles : Strings(handles[i].v) = handles[i].default

(* ------------------------------------------------------------------- C9 *)

\* C9: the registry holds, for each key, the value and the arity of the
\* last registration under it, and the cells of the handle of a replaced
\* registration keep their defaults in every state.
C9_SecondWins ==
    \A i \in DOMAIN handles :
        IF Current(i)
        THEN /\ keys[handles[i].key].value = handles[i].v
             /\ keys[handles[i].key].value_len = handles[i].value_len
        ELSE Strings(handles[i].v) = handles[i].default

\* A key was registered twice, each time with a default, and parse has
\* written the cells of the second registration.
C9_Witness ==
    /\ Len(handles) = 2
    /\ handles[1].key = handles[2].key
    /\ handles[1].default # << >>
    /\ handles[2].default # << >>
    /\ Strings(handles[2].v) # handles[2].default
    /\ Strings(handles[1].v) = handles[1].default

(* ------------------------------------------------------------------ C10 *)

\* C10: the process exits only with status 0: on help, on the ordering
\* error and on the errors of the read macros.
C10_ExitsWithSuccess ==
    /\ pc = "exit" <=> exit_code # << >>
    /\ pc = "exit" =>
        /\ exit_code = <<0>>
        /\ out # << >>
        /\ Last(out).kind \in {"help", "not matched", "to error", "value is single"}

\* The process has exited on a type-conversion error of a read.
C10_Witness ==
    /\ pc = "exit"
    /\ out # << >>
    /\ Last(out).kind = "to error"

\* The other terminal paths.
C10_HelpReached == HelpExit
C10_OrderingReached == OrderingError
C10_ShapeReached == pc = "exit" /\ out # << >> /\ Last(out).kind = "value is single"

(* ------------------------------------------------------------------ C11 *)

\* The reader of option i is the active one.
ReaderOf(i) ==
    /\ reader # << >>
    /\ ~OrderingError
    /\ KeyPositions # {}
    /\ ActiveKey = handles[i].key

\* C11: for a fixed-arity sequence option of arity A, no copy of its sequence
\* (the registry's, the handle's, the active reader's) has more than A
\* elements, and the registry and the handle have exactly A.
C11_FixedNeverExceeds ==
    \A i \in DOMAIN handles : FixedVec(i) =>
        /\ Len(handles[i].v.cells) = handles[i].value_len
        /\ Len(keys[handles[i].key].value.cells) = handles[i].value_len
        /\ ReaderOf(i) => Len(reader[1].value.cells) <= handles[i].value_len

(* ------------------------------------------------------------------ C12 *)

\* The step takes the argument a and has no other effect.
Discards(a) ==
    /\ args' = Append(args, a)
    /\ UNCHANGED <<pc, help, keys, cells, handles, reader, out, exit_code, got>>

\* The last key among the arguments has a fixed arity, and at least that many
\* values follow it up to the end of the arguments.
ArityConsumed ==
    /\ KeyPositions # {}
    /\ keys[ActiveKey].value_len >= 0
    /\ Len(args) - Max(KeyPositions) >= keys[ActiveKey].value_len
    /\ FollowedByWords(Max(KeyPositions), Len(args) - Max(KeyPositions))

\* The first half of C12: a value taken while no reader is active is
\* discarded.
C12_NoReaderStep ==
    \A a \in Tokens :
        (pc = "parse" /\ reader = << >> /\ args' = Append(args, a) /\ IsWord(a))
            => Discards(a)

\* C12: a value taken while no reader is active changes no cell and no
\* registered option, starts no reader and raises no error; in particular a
\* value that follows a fixed-arity key beyond its arity is dropped.
C12_ValuesDiscarded ==
    [][ /\ C12_NoReaderStep
        /\ \A a \in Tokens :
            (pc = "parse" /\ ArityConsumed /\ args' = Append(args, a)
                /\ IsWord(a))
                => Discards(a) ]_vars

(* ------------------------------------------------------------------ C13 *)

\* The sentinel of Flag::new.
DefaultHelp == "--help"

\* The step stores the value a through the active reader: one cell holds a
\* afterwards and no other cell has changed.
Stores(a) ==
    /\ pc' = "parse"
    /\ out' = out
    /\ \E c \in DOMAIN cells' :
        /\ cells'[c] = a
        /\ \A d \in DOMAIN cells : d # c => cells'[d] = cells[d]

\* C13: help changes only to the argument of set_help; a step of parse ends
\* in the help display exactly when its argument equals help; the previous
\* sentinel is then a key if registered, else a value stored by the active
\* reader or discarded.
C13_SentinelFollowsSetHelp ==
    [][ /\ help' # help => (pc = "setup" /\ help' \in HelpTokens)
        /\ \A a \in Tokens :
            (pc = "parse" /\ args' = Append(args, a)) =>
                /\ HelpExit' <=> a = help
                /\ (a = DefaultHelp /\ help # DefaultHelp) =>
                     IF a \in DOMAIN keys
                     THEN OrderingError' \/ reader' = <<Reader_new(keys[a].value, keys[a].value_len)>>
                     ELSE IF reader # << >> THEN Stores(a) ELSE Discards(a) ]_vars

\* After set_help the previous sentinel was stored as a value and parse
\* then ended in the help display on the new sentinel.
C13_Witness ==
    /\ HelpExit
    /\ help # DefaultHelp
    /\ Last(args) = help
    /\ \E p \in DOMAIN args : args[p] = DefaultHelp
    /\ \E c \in DOMAIN cells : cells[c] = DefaultHelp

(* ------------------------------------------------------------------ C14 *)

\* The strings of the model that are decimal numerals, and their values.
Numerals == {"80", "8080"}
NumeralValue(s) == IF s = "80" THEN 80 ELSE 8080

\* C14: reading a scalar as a number yields the value of the string in its
\* cell when the string is a numeral, and is the fatal type-conversion error
\* exactly when it is not.
C14_NumericRead ==
    [][ \A h \in DOMAIN handles, typ \in NumTypes :
          (read(h, typ) /\ handles[h].v.tag = "Single") =>
              IF cells[handles[h].v.cells[1]] \in Numerals
              THEN /\ got' = <<NumResult(NumeralValue(cells[handles[h].v.cells[1]]))>>
                   /\ pc' = "done"
                   /\ exit_code' = << >>
                   /\ out' = out
              ELSE /\ pc' = "exit"
                   /\ out' = Append(out, ToError(typ))
                   /\ got' = got ]_vars

\* The option registered with the numeric default 80 was given 8080 and has
\* been read as the number 8080.
C14_Witness ==
    /\ pc = "done"
    /\ got = <<NumResult(8080)>>
    /\ \E i \in DOMAIN handles :
        /\ Scalar(i)
        /\ handles[i].default = <<"80">>
        /\ args = <<handles[i].key, "8080">>
        /\ cells[handles[i].v.cells[1]] = "8080"

(* ------------------------------------------------------------------ C15 *)

\* The heap after the value a is written at position index of the value of
\* reader r, as C15 words it.
WrittenAt(r, a) ==
    IF r.value.tag = "Single"
    THEN cells' = [cells EXCEPT ![r.value.cells[1]] = a]
    ELSE IF r.index < Len(r.value.cells)
         THEN cells' = [cells EXCEPT ![r.value.cells[r.index + 1]] = a]
         ELSE /\ Len(cells') = Len(cells) + 1
              /\ SubSeq(cells', 1, Len(cells)) = cells
              /\ Last(cells') = a

\* The status C15 gives for reader r after its increment.
StatusAfter(r) ==
    IF r.value_len >= 0 /\ r.index + 1 = r.value_len
    THEN "Finish" ELSE "Processing"

\* The reader after process on r, when it is kept: index one more, and one
\* more cell at the tail exactly when the write was an append.
GrownBy(r, q) ==
    /\ q.index = r.index + 1
    /\ q.value_len = r.value_len
    /\ q.value.tag = r.value.tag
    /\ IF r.value.tag = "Multi" /\ r.index >= Len(r.value.cells)
       THEN /\ Len(q.value.cells) = Len(r.value.cells) + 1
            /\ SubSeq(q.value.cells, 1, Len(r.value.cells)) = r.value.cells
            /\ Last(q.value.cells) = Len(cells')
       ELSE q.value.cells = r.value.cells

\* C15: process writes the value at position index, increments index by 1
\* and returns Finish exactly when the arity is fixed and the incremented
\* index equals it.
C15_Process ==
    [][ \A a \in Tokens :
          (pc = "parse" /\ reader # << >> /\ args' = Append(args, a)
              /\ IsWord(a)) =>
              /\ WrittenAt(reader[1], a)
              /\ read_status' = StatusAfter(reader[1])
              /\ IF StatusAfter(reader[1]) = "Finish"
                 THEN reader' = << >>
                 ELSE reader' # << >> /\ GrownBy(reader[1], reader'[1])
              /\ pc' = "parse" ]_vars

\* A reader of fixed arity has an index beyond its arity and process has
\* returned Processing.
C15_Witness ==
    /\ pc = "parse"
    /\ reader # << >>
    /\ reader[1].value_len >= 0
    /\ reader[1].index > reader[1].value_len
    /\ read_status = "Processing"

(* ------------------------------------------------------------------ C16 *)

\* C16: the active reader counts only the values after the last key match
\* and is bound to the cells the registry holds for that key; each position
\* of an option reads the value the last occurrence of its key that reached
\* the position wrote there, counted from 0 at every occurrence, else the
\* default.
C16_FreshWindow ==
    /\ (pc = "parse" /\ reader # << >>) =>
          /\ reader[1].index = Len(args) - Max(KeyPositions)
          /\ reader[1].value_len = keys[ActiveKey].value_len
          /\ reader[1].value.tag = keys[ActiveKey].value.tag
          /\ SubSeq(reader[1].value.cells, 1,
                    Len(keys[ActiveKey].value.cells))
                = keys[ActiveKey].value.cells
    /\ \A i \in DOMAIN handles : Current(i) =>
          \A j \in 1..Len(handles[i].default) :
              cells[handles[i].v.cells[j]] =
                  LastWritten(handles[i].key, j, handles[i].default[j])

\* The key of a sequence option with 2 defaults occurred twice, each time
\* with one value: position 0 reads the second value and position 1 its
\* default.
C16_Witness ==
    \E i \in DOMAIN handles :
        /\ Current(i)
        /\ handles[i].v.tag = "Multi"
        /\ Len(handles[i].default) = 2
        /\ Len(args) = 4
        /\ args[1] = handles[i].key
        /\ args[3] = handles[i].key
        /\ FollowedByWords(1, 1)
        /\ FollowedByWords(3, 1)
        /\ args[2] # args[4]
        /\ Strings(handles[i].v) = <<args[4], handles[i].default[2]>>

(* ------------------------------------------------------------------ C17 *)

\* Parse has returned normally (the process may since have exited in a read).
Completed ==
    \/ pc = "done"
    \/ /\ pc = "exit"
       /\ ~HelpExit
       /\ ~OrderingError

\* Parse has ended, and in exactly one of its three outcomes.
OneOutcome ==
    /\ Completed \/ HelpExit \/ OrderingError
    /\ ~(HelpExit /\ OrderingError)
    /\ HelpExit => Last(args) = help
    /\ OrderingError => (Last(args) \in DOMAIN keys /\ Last(args) # help)
    /\ Completed =>
          /\ \A p \in DOMAIN args : args[p] # help
          /\ \A m \in DOMAIN out : out[m].kind \notin {"help", "not matched"}

\* A step of parse takes exactly the next argument, or returns with every
\* argument taken; after parse no argument is taken again.
InOrderOnce ==
    /\ pc = "parse" =>
          \/ /\ Len(args') = Len(args) + 1
             /\ SubSeq(args', 1, Len(args)) = args
             /\ pc' \in {"parse", "exit"}
          \/ /\ args' = args
             /\ pc' = "done"
             /\ UNCHANGED <<cells, reader, out, exit_code>>
    /\ pc \in {"done", "exit"} => (args' = args /\ pc' \in {"done", "exit"})

\* C17: parse ends, in exactly one of normal completion, help exit and
\* ordering error, and takes the arguments in order, each once.
C17_ParseTerminates ==
    /\ [][InOrderOnce]_vars
    /\ [](pc \in {"done", "exit"} => OneOutcome)
    /\ (pc = "parse") ~> (pc \in {"done", "exit"})

\* Parse has returned normally after taking every argument of a full list.
C17_Witness ==
    /\ pc = "done"
    /\ Len(args) = MaxArgs
    /\ out = << >>

(* ------------------------------------------------------------------ C18 *)

\* The arguments ran out while the reader of registration i, of fixed arity,
\* had consumed fewer values than its arity.
ExhaustedShort(i) ==
    /\ pc = "done"
    /\ Current(i)
    /\ ReaderOf(i)
    /\ handles[i].value_len >= 0
    /\ reader[1].index < handles[i].value_len

\* The end of the arguments is no error, and the ordering error is raised on
\* a key token.
EndIsNoError ==
    /\ pc = "done" =>
          /\ exit_code = << >>
          /\ \A m \in DOMAIN out : out[m].kind # "not matched"
    /\ OrderingError => (Last(args) \in DOMAIN keys /\ Last(args) # help)

\* The positions the active reader wrote hold the values supplied after its
\* key.
SuppliedHeld(i) ==
    \A j \in 1..reader[1].index :
        cells[handles[i].v.cells[j]] = args[Max(KeyPositions) + j]

\* C18 as stated: when the arguments run out under a fixed-arity reader with
\* index < arity, parse completes normally, the positions written hold the
\* supplied values and every position not written holds its default.
C18_KeepDefaults ==
    /\ EndIsNoError
    /\ \A i \in DOMAIN handles : ExhaustedShort(i) =>
          /\ SuppliedHeld(i)
          /\ \A j \in (reader[1].index + 1)..Len(handles[i].default) :
                cells[handles[i].v.cells[j]] = handles[i].default[j]

\* C18 amended: as above, but a position not written keeps what it held when
\* the key was matched: the value an earlier occurrence of the key wrote
\* there, and the default only when there is none.
C18_KeepEarlier ==
    /\ EndIsNoError
    /\ \A i \in DOMAIN handles : ExhaustedShort(i) =>
          /\ SuppliedHeld(i)
          /\ \A j \in (reader[1].index + 1)..Len(handles[i].default) :
                cells[handles[i].v.cells[j]] =
                    LastWritten(handles[i].key, j, handles[i].default[j])

\* The arguments ran out after one of the two values of a fixed sequence:
\* the handle reads the supplied value, then the second default.
C18_Witness ==
    \E i \in DOMAIN handles :
        /\ ExhaustedShort(i)
        /\ FixedVec(i)
        /\ handles[i].value_len = 2
        /\ reader[1].index = 1
        /\ args[Len(args)] # handles[i].default[1]
        /\ Strings(handles[i].v) = <<args[Len(args)], handles[i].default[2]>>

(* ------------------------------------------------------------------ C19 *)

\* C19: once parse has started, when no reader is active the remembered
\* read_status is Finish, and the ordering error is only ever raised with a
\* reader active (the error leaves the reader as it was).
C19_NoStaleStatus ==
    pc # "setup" =>
        /\ reader = << >> => read_status = "Finish"
        /\ OrderingError => (reader # << >> /\ Unsatisfied)

\* A scalar's key, its value, and the key again: the second key was matched
\* with no reader active, after an earlier reader, and started a new one.
C19_Witness ==
    \E i \in DOMAIN handles :
        /\ Scalar(i)
        /\ pc = "parse"
        /\ Len(args) = 3
        /\ args[1] = handles[i].key
        /\ IsWord(args[2])
        /\ args[3] = handles[i].key
        /\ reader # << >>
        /\ reader[1].index = 0
        /\ read_status = "Finish"

(* ------------------------------------------------------------------ C20 *)

\* The cells of a value.
CellsOf(v) == {v.cells[j] : j \in DOMAIN v.cells}

\* Registration i is not the option the active reader was started for.
OtherOption(i) ==
    \/ reader = << >>
    \/ ~Current(i)
    \/ handles[i].key # ActiveKey

\* C20: a step of parse leaves the registry (keys, cell sequences, arities,
\* descriptions), the handles and the help token as they are; a cell that
\* changes belongs to the value of the key the active reader was started
\* for, and new cells are only added at the end (the reader's own clone); no
\* cell of any other option changes.
C20_Frame ==
    [][ pc = "parse" =>
          /\ keys' = keys
          /\ handles' = handles
          /\ help' = help
          /\ Len(cells') >= Len(cells)
          /\ \A d \in DOMAIN cells : cells'[d] # cells[d] =>
                /\ reader # << >>
                /\ IsWord(Last(args'))
                /\ d \in CellsOf(keys[ActiveKey].value)
          /\ \A i \in DOMAIN handles : OtherOption(i) =>
                \A d \in CellsOf(handles[i].v) : cells'[d] = cells[d]
      ]_vars

\* Two options on different keys: the values after the second key have
\* overwritten its cells while the first option still reads its defaults.
C20_Witness ==
    /\ pc = "parse"
    /\ reader # << >>
    /\ Len(handles) = 2
    /\ handles[1].key # handles[2].key
    /\ ActiveKey = handles[2].key
    /\ reader[1].index >= 1
    /\ Len(handles[1].default) >= 1
    /\ Strings(handles[1].v) = handles[1].default
    /\ Strings(handles[2].v) # handles[2].default
====
